---- MODULE Spec2Model ----
(***************************************************************************)
(* HTTPie (src/main.rs): one run of the command-line client.  A run parses *)
(* the command line (clap, with parse_url and parse_kv_pair as value       *)
(* parsers), builds the HTTP client, sends one GET or POST, and prints the *)
(* response (print_resp).                                                  *)
(*                                                                         *)
(* Strings that the program takes apart (command-line tokens) are          *)
(* sequences of one-character strings.  Strings that are only handed to a  *)
(* library (header values, bodies) are TLA+ strings, and the library's     *)
(* result on them is tabulated.                                            *)
(***************************************************************************)
EXTENDS Integers, Sequences, FiniteSets, TLC

VARIABLES
    argv,    \* the command line: [cmd, url, body], tokens as typed
    net,     \* what the network gives to the one send(): an error or a response
    pc,      \* position in main / get / post / print_resp
    cli,     \* result of Cli::parse(): the parsed command
    kv,      \* results of the parse_kv_pair calls clap made, in order
    client,  \* "none" | "ok" | "err": Client::builder()...build()
    sends,   \* number of send() calls made
    req,     \* the request handed to send()
    resp,    \* the Response: header map and unread body
    mime,    \* result of get_content_type
    text,    \* the body read by resp.text()
    pp,      \* "none" | "ok" | "err": the Result of jsonxf::pretty_print
    out,     \* lines written to standard output, in order
    err,     \* why the run failed ("none" while it has not)
    exit     \* "running" or the process exit status

vars == <<argv, net, pc, cli, kv, client, sends, req, resp, mime, text, pp, out, err, exit>>

----------------------------------------------------------------------------
(* Bounds of the model *)

MaxLen == 3       \* longest key=value token
MaxBody == 2      \* most body tokens of a post
MaxUrlLen == 3    \* longest url token
MaxHeaders == 3   \* most headers of a response

SeqsUpTo(S, n) == UNION {[1..k -> S] : k \in 0..n}

KVAlphabet == {"a", "b", "="}
UrlAlphabet == {"a", "A", ":"}

----------------------------------------------------------------------------
(* String helpers *)

\* Index of the first occurrence of c in s, 0 when there is none.
IndexOf(s, c) ==
    IF \E i \in 1..Len(s) : s[i] = c
    THEN CHOOSE i \in 1..Len(s) : s[i] = c /\ \A j \in 1..(i - 1) : s[j] # c
    ELSE 0

Lower(c) == IF c = "A" THEN "a" ELSE c

----------------------------------------------------------------------------
(* KVPair::from_str and parse_kv_pair *)

\* str::split("="): the segments between the separators, at least one.
RECURSIVE split(_)
split(s) ==
    LET i == IndexOf(s, "=")
    IN  IF i = 0 THEN <<s>>
        ELSE <<SubSeq(s, 1, i - 1)>> \o split(SubSeq(s, i + 1, Len(s)))

KVErr == [ok |-> FALSE, k |-> <<>>, v |-> <<>>]

\* A parser that accepts a token without "=" as a key with an empty value.
from_str_lenient(s) ==
    LET it == split(s)
    IN  [ok |-> TRUE, k |-> it[1], v |-> IF Len(it) >= 2 THEN it[2] ELSE <<>>]

\* A parser that stores the two segments the wrong way round.
from_str_swapped(s) ==
    LET it == split(s)
    IN  IF Len(it) < 2 THEN KVErr ELSE [ok |-> TRUE, k |-> it[2], v |-> it[1]]

\* k is the first segment, v the second; an error when there is no second.
from_str(s) ==
    LET it == split(s)
    IN  IF Len(it) < 2 THEN KVErr ELSE [ok |-> TRUE, k |-> it[1], v |-> it[2]]

parse_kv_pair(s) == from_str(s)

----------------------------------------------------------------------------
(* parse_url *)

\* Url::parse on a token over UrlAlphabet: a scheme of letters, then ":",
\* then an opaque path.  The parsed Url has its scheme in lower case.
Url_parse(s) ==
    LET i == IndexOf(s, ":")
    IN  IF i < 2 THEN [ok |-> FALSE, url |-> <<>>]
        ELSE [ok |-> TRUE,
              url |-> [j \in 1..Len(s) |-> IF j < i THEN Lower(s[j]) ELSE s[j]]]

\* A validator that hands back the parsed Url's text instead of the token.
parse_url_normalized(s) ==
    LET u == Url_parse(s)
    IN  IF u.ok THEN [ok |-> TRUE, url |-> u.url] ELSE [ok |-> FALSE, url |-> <<>>]

\* The parsed Url is dropped; the token itself is returned.
parse_url(s) ==
    LET u == Url_parse(s)
    IN  IF u.ok THEN [ok |-> TRUE, url |-> s] ELSE [ok |-> FALSE, url |-> <<>>]

----------------------------------------------------------------------------
(* Cli::parse(): clap runs parse_url on the url token, then parse_kv_pair  *)
(* on each body token in order, and stops at the first error.  `get` takes *)
(* no further token.                                                       *)

CliErr == [ok |-> FALSE, cmd |-> "none", url |-> <<>>, body |-> <<>>]

\* Index of the first failed result, 0 when all succeeded.
FirstErr(rs) ==
    IF \E i \in 1..Len(rs) : ~rs[i].ok
    THEN CHOOSE i \in 1..Len(rs) : ~rs[i].ok /\ \A j \in 1..(i - 1) : rs[j].ok
    ELSE 0

KVPairOf(r) == [k |-> r.k, v |-> r.v]

\* A command line parser that drops the body tokens that fail to parse.
Cli_parse_skip(a) ==
    LET u  == parse_url(a.url)
        rs == [i \in 1..Len(a.body) |-> parse_kv_pair(a.body[i])]
        ok == SelectSeq(rs, LAMBDA r : r.ok)
    IN  IF ~u.ok THEN [cli |-> CliErr, kv |-> <<>>]
        ELSE IF a.cmd = "get"
        THEN IF a.body # <<>> THEN [cli |-> CliErr, kv |-> <<>>]
             ELSE [cli |-> [ok |-> TRUE, cmd |-> "get", url |-> u.url, body |-> <<>>],
                   kv |-> <<>>]
        ELSE [cli |-> [ok |-> TRUE, cmd |-> "post", url |-> u.url,
                       body |-> [i \in 1..Len(ok) |-> KVPairOf(ok[i])]],
              kv |-> rs]

Cli_parse(a) ==
    LET u  == parse_url(a.url)
        rs == [i \in 1..Len(a.body) |-> parse_kv_pair(a.body[i])]
        f  == FirstErr(rs)
    IN  IF ~u.ok THEN [cli |-> CliErr, kv |-> <<>>]
        ELSE IF a.cmd = "get"
        THEN IF a.body # <<>> THEN [cli |-> CliErr, kv |-> <<>>]
             ELSE [cli |-> [ok |-> TRUE, cmd |-> "get", url |-> u.url, body |-> <<>>],
                   kv |-> <<>>]
        ELSE IF f # 0 THEN [cli |-> CliErr, kv |-> SubSeq(rs, 1, f)]
        ELSE [cli |-> [ok |-> TRUE, cmd |-> "post", url |-> u.url,
                       body |-> [i \in 1..Len(rs) |-> KVPairOf(rs[i])]],
              kv |-> rs]

----------------------------------------------------------------------------
(* post: the JSON body, a HashMap filled pair by pair *)

EmptyMap == [x \in {} |-> <<>>]

\* An insert that keeps the value a key already has.
insert_keep_first(m, k, v) ==
    [x \in DOMAIN m \cup {k} |-> IF x \in DOMAIN m THEN m[x] ELSE v]

\* HashMap::insert: the new value replaces the one the key had.
insert(m, k, v) ==
    [x \in DOMAIN m \cup {k} |-> IF x = k THEN v ELSE m[x]]

\* for pair in args.body.iter() { body.insert(&pair.k, &pair.v); }
RECURSIVE body_map(_, _)
body_map(m, pairs) ==
    IF pairs = <<>> THEN m
    ELSE body_map(insert(m, Head(pairs).k, Head(pairs).v), Tail(pairs))

NoReq == [method |-> "none", url |-> <<>>, json |-> EmptyMap]

\* A send that is tried once more when it fails.
send_with_retry(n, reply) ==
    [sends |-> IF reply.fail THEN n + 2 ELSE n + 1, ok |-> ~reply.fail]

\* .send().await: one call, which gives the response or the transport error.
send(n, reply) == [sends |-> n + 1, ok |-> ~reply.fail]

----------------------------------------------------------------------------
(* The response's headers: an http::HeaderMap.  A map entry holds a name   *)
(* and every value received under it; entries are in order of first        *)
(* receipt.  The client appends each received header in wire order.        *)

HasName(m, n) == \E i \in 1..Len(m) : m[i].name = n

\* HeaderMap::append
append(m, n, v) ==
    IF HasName(m, n)
    THEN [i \in 1..Len(m) |->
            IF m[i].name = n THEN [name |-> n, values |-> Append(m[i].values, v)] ELSE m[i]]
    ELSE Append(m, [name |-> n, values |-> <<v>>])

RECURSIVE header_map(_, _)
header_map(m, wire) ==
    IF wire = <<>> THEN m
    ELSE header_map(append(m, Head(wire).name, Head(wire).value), Tail(wire))

\* HeaderMap::iter: entry by entry, each name once per value it holds.
RECURSIVE iter(_)
iter(m) ==
    IF m = <<>> THEN <<>>
    ELSE [i \in 1..Len(Head(m).values) |->
            [name |-> Head(m).name, value |-> Head(m).values[i]]] \o iter(Tail(m))

\* HeaderMap::get: the first value held under the name.
header_get(m, n) ==
    IF HasName(m, n)
    THEN [some |-> TRUE, value |-> (m[CHOOSE i \in 1..Len(m) : m[i].name = n]).values[1]]
    ELSE [some |-> FALSE, value |-> ""]

----------------------------------------------------------------------------
(* Content types *)

CONTENT_TYPE == "content-type"
BadBytes == "<0xFF>"       \* a header value that is not visible ASCII

\* HeaderValue::to_str
to_str_ok(v) == v # BadBytes

NoMime == [type |-> "", subtype |-> "", params |-> ""]
APPLICATION_JSON == [type |-> "application", subtype |-> "json", params |-> ""]

\* str::parse::<Mime>: type and subtype in lower case, then the parameters.
Mime_parse(v) ==
    CASE v = "application/json" ->
            [ok |-> TRUE, m |-> [type |-> "application", subtype |-> "json", params |-> ""]]
      [] v = "APPLICATION/JSON" ->
            [ok |-> TRUE, m |-> [type |-> "application", subtype |-> "json", params |-> ""]]
      [] v = "application/json; charset=utf-8" ->
            [ok |-> TRUE, m |-> [type |-> "application", subtype |-> "json",
                                 params |-> "charset=utf-8"]]
      [] v = "text/plain" ->
            [ok |-> TRUE, m |-> [type |-> "text", subtype |-> "plain", params |-> ""]]
      [] OTHER -> [ok |-> FALSE, m |-> NoMime]

\* Mime's ==: type, subtype and parameters all agree.
mime_eq(a, b) == a.type = b.type /\ a.subtype = b.subtype /\ a.params = b.params

NoContentType == [panic |-> FALSE, some |-> FALSE, m |-> NoMime]

\* A lookup that treats a header it cannot parse as no header at all.
get_content_type_ok(h) ==
    LET v == header_get(h, CONTENT_TYPE)
    IN  IF ~v.some \/ ~to_str_ok(v.value) \/ ~Mime_parse(v.value).ok THEN NoContentType
        ELSE [panic |-> FALSE, some |-> TRUE, m |-> Mime_parse(v.value).m]

\* .get(CONTENT_TYPE).map(|v| v.to_str().unwrap().parse().unwrap())
get_content_type(h) ==
    LET v == header_get(h, CONTENT_TYPE)
    IN  IF ~v.some THEN NoContentType
        ELSE IF ~to_str_ok(v.value) \/ ~Mime_parse(v.value).ok
        THEN [panic |-> TRUE, some |-> FALSE, m |-> NoMime]
        ELSE [panic |-> FALSE, some |-> TRUE, m |-> Mime_parse(v.value).m]

----------------------------------------------------------------------------
(* Printing *)

Line(kind, name, txt, style) == [kind |-> kind, name |-> name, text |-> txt, style |-> style]
Blank == Line("blank", "", "", "plain")

\* println!("{}\n", status): the status line and an empty line.
print_status(r) == <<Line("status", "", r.status, "blue"), Blank>>

\* One line per (name, value) of the header map, then an empty line.
print_header(r) ==
    LET hs == iter(r.headers)
    IN  [i \in 1..Len(hs) |-> Line("header", hs[i].name, hs[i].value, "green")] \o <<Blank>>

\* jsonxf::pretty_print on the bodies of the model.
pretty_print(b) ==
    CASE b = "{\"a\":1}" -> "{\n  \"a\": 1\n}"
      [] OTHER -> b

\* match m { Some(v) if v == APPLICATION_JSON => pretty, _ => raw }
print_body(m, b, ppOk) ==
    IF m.some /\ mime_eq(m.m, APPLICATION_JSON)
    THEN IF ppOk
         THEN [panic |-> FALSE, pp |-> "ok", line |-> Line("body", "", pretty_print(b), "cyan")]
         ELSE [panic |-> TRUE, pp |-> "err", line |-> Blank]
    ELSE [panic |-> FALSE, pp |-> "none", line |-> Line("body", "", b, "plain")]

\* An order that parses the Content-Type header before anything is printed.
print_resp_order_parse_first ==
    <<"get_content_type", "print_status", "print_header", "text", "print_body">>

\* print_resp: the calls it makes, in order.
print_resp_order ==
    <<"print_status", "print_header", "get_content_type", "text", "print_body">>

After(step) ==
    LET i == CHOOSE j \in 1..Len(print_resp_order) : print_resp_order[j] = step
    IN  IF i < Len(print_resp_order) THEN print_resp_order[i + 1] ELSE "return"

----------------------------------------------------------------------------
(* Inputs of a run: the command line and what the network answers *)

GoodUrl == <<"a", ":">>
BadUrl == <<"a">>
BodyTokens == {<<"a", "=", "a">>, <<"a", "=", "b">>, <<"b", "=", "a">>, <<"b", "=", "b">>, <<"a">>}

\* Every key=value token up to MaxLen, alone or after a well-formed one.
ArgsKV ==
    {[cmd |-> "post", url |-> GoodUrl, body |-> b] :
        b \in {<<t>> : t \in SeqsUpTo(KVAlphabet, MaxLen)}
              \cup {<<<<"a", "=", "b">>, t>> : t \in SeqsUpTo(KVAlphabet, MaxLen)}}

\* Every list of up to MaxBody body tokens, with repeated keys.
ArgsBody == [cmd : {"get", "post"}, url : {GoodUrl, BadUrl}, body : SeqsUpTo(BodyTokens, MaxBody)]

\* Every url token up to MaxUrlLen.
ArgsUrl ==
    [cmd : {"get", "post"}, url : SeqsUpTo(UrlAlphabet, MaxUrlLen),
     body : {<<>>, <<<<"a", "=", "b">>>>}]

ArgsFew ==
    {[cmd |-> "get", url |-> GoodUrl, body |-> <<>>],
     [cmd |-> "post", url |-> GoodUrl, body |-> <<<<"a", "=", "b">>>>]}

NetFail == [fail |-> TRUE, status |-> "", headers |-> <<>>, body |-> ""]

HeaderPool ==
    [name : {CONTENT_TYPE},
     value : {"application/json", "APPLICATION/JSON", "application/json; charset=utf-8",
              "text/plain", "garbage", BadBytes}]
    \cup [name : {"x-a"}, value : {"1", "2"}]

Bodies == {"{\"a\":1}", "hello"}

NetFew ==
    {NetFail,
     [fail |-> FALSE, status |-> "HTTP/1.1 200 OK",
      headers |-> <<[name |-> CONTENT_TYPE, value |-> "application/json"]>>,
      body |-> "{\"a\":1}"]}

\* Every response of up to MaxHeaders headers.
NetAll ==
    {NetFail} \cup
    [fail : {FALSE}, status : {"HTTP/1.1 200 OK", "HTTP/1.1 404 Not Found"},
     headers : SeqsUpTo(HeaderPool, MaxHeaders), body : Bodies]

Inputs ==
    ((ArgsKV \cup ArgsBody \cup ArgsUrl) \X NetFew) \cup (ArgsFew \X NetAll)

NoResp == [status |-> "", headers |-> <<>>, body |-> ""]

----------------------------------------------------------------------------
(* The run *)

Init ==
    /\ \E i \in Inputs : argv = i[1] /\ net = i[2]
    /\ pc = "start"
    /\ cli = CliErr
    /\ kv = <<>>
    /\ client = "none"
    /\ sends = 0
    /\ req = NoReq
    /\ resp = NoResp
    /\ mime = NoContentType
    /\ text = ""
    /\ pp = "none"
    /\ out = <<>>
    /\ err = "none"
    /\ exit = "running"

Fail(why, status) == pc' = "exit" /\ err' = why /\ exit' = status

\* let cli = Cli::parse();  clap prints the error and exits with status 2.
ParseArgs ==
    /\ pc = "start"
    /\ LET r == Cli_parse(argv)
       IN  /\ cli' = r.cli
           /\ kv' = r.kv
           /\ IF r.cli.ok
              THEN pc' = "build_client" /\ UNCHANGED <<err, exit>>
              ELSE Fail("usage", "2")
    /\ UNCHANGED <<argv, net, client, sends, req, resp, mime, text, pp, out>>

\* The default headers and Client::builder().build()?
BuildClient ==
    /\ pc = "build_client"
    /\ \E ok \in BOOLEAN :
        IF ok
        THEN client' = "ok" /\ pc' = "dispatch" /\ UNCHANGED <<err, exit>>
        ELSE client' = "err" /\ Fail("client", "1")
    /\ UNCHANGED <<argv, net, cli, kv, sends, req, resp, mime, text, pp, out>>

\* What send() does with the request: the call, then the response or the error.
Dispatch(request) ==
    LET s == send(sends, net)
    IN  /\ req' = request
        /\ sends' = s.sends
        /\ IF s.ok
           THEN /\ resp' = [status |-> net.status,
                            headers |-> header_map(<<>>, net.headers),
                            body |-> net.body]
                /\ pc' = print_resp_order[1]
                /\ UNCHANGED <<err, exit>>
           ELSE /\ Fail("transport", "1")
                /\ UNCHANGED resp
        /\ UNCHANGED <<argv, net, cli, kv, client, mime, text, pp, out>>

\* get: client.get(&args.url).send().await?
Get ==
    /\ pc = "dispatch"
    /\ cli.cmd = "get"
    /\ Dispatch([method |-> "GET", url |-> cli.url, json |-> EmptyMap])

\* post: the body map, then client.post(&args.url).json(&body).send().await?
Post ==
    /\ pc = "dispatch"
    /\ cli.cmd = "post"
    /\ Dispatch([method |-> "POST", url |-> cli.url, json |-> body_map(EmptyMap, cli.body)])

PrintStatus ==
    /\ pc = "print_status"
    /\ out' = out \o print_status(resp)
    /\ pc' = After("print_status")
    /\ UNCHANGED <<argv, net, cli, kv, client, sends, req, resp, mime, text, pp, err, exit>>

PrintHeader ==
    /\ pc = "print_header"
    /\ out' = out \o print_header(resp)
    /\ pc' = After("print_header")
    /\ UNCHANGED <<argv, net, cli, kv, client, sends, req, resp, mime, text, pp, err, exit>>

\* let mime = get_content_type(&resp);  an unwrap that fails panics.
GetContentType ==
    /\ pc = "get_content_type"
    /\ LET r == get_content_type(resp.headers)
       IN  IF r.panic
           THEN Fail("panic_content_type", "101") /\ UNCHANGED mime
           ELSE mime' = r /\ pc' = After("get_content_type") /\ UNCHANGED <<err, exit>>
    /\ UNCHANGED <<argv, net, cli, kv, client, sends, req, resp, text, pp, out>>

\* let body = resp.text().await?;  the read may fail mid-stream.
Text ==
    /\ pc = "text"
    /\ \E ok \in BOOLEAN :
        IF ok
        THEN text' = resp.body /\ pc' = After("text") /\ UNCHANGED <<err, exit>>
        ELSE Fail("body_read", "1") /\ UNCHANGED text
    /\ UNCHANGED <<argv, net, cli, kv, client, sends, req, resp, mime, pp, out>>

\* print_body(mime, &body);  pretty_print gives a Result, unwrapped.
PrintBody ==
    /\ pc = "print_body"
    /\ \E ppOk \in BOOLEAN :
        LET r == print_body(mime, text, ppOk)
        IN  /\ pp' = r.pp
            /\ IF r.panic
               THEN Fail("panic_pretty_print", "101") /\ UNCHANGED out
               ELSE out' = Append(out, r.line) /\ pc' = After("print_body")
                    /\ UNCHANGED <<err, exit>>
    /\ UNCHANGED <<argv, net, cli, kv, client, sends, req, resp, mime, text>>

\* Ok(()) from print_resp, get/post and main.
Return ==
    /\ pc = "return"
    /\ pc' = "exit"
    /\ exit' = "0"
    /\ UNCHANGED <<argv, net, cli, kv, client, sends, req, resp, mime, text, pp, out, err>>

Next ==
    \/ ParseArgs
    \/ BuildClient
    \/ Get
    \/ Post
    \/ PrintStatus
    \/ PrintHeader
    \/ GetContentType
    \/ Text
    \/ PrintBody
    \/ Return

Spec == Init /\ [][Next]_vars

----------------------------------------------------------------------------
(* Properties *)

NoEq(s) == \A i \in 1..Len(s) : s[i] # "="
NonZero == {"1", "2", "101"}
NoEqStrings == SeqsUpTo(KVAlphabet \ {"="}, MaxLen)

\* The command line has a token that must be rejected.
BadToken ==
    \/ ~Url_parse(argv.url).ok
    \/ argv.cmd = "post" /\ \E i \in 1..Len(argv.body) : NoEq(argv.body[i])

\* C1: when the url token fails validation, or a body token of post has no
\* "=", the run is rejected with a non-zero exit status and nothing is ever
\* sent; a send happens only after every token has parsed.
C1_RejectedBeforeSend ==
    /\ BadToken => sends = 0 /\ req = NoReq
    /\ (BadToken /\ pc # "start") => (pc = "exit" /\ exit \in NonZero)
    /\ sends > 0 => /\ cli.ok
                    /\ Url_parse(argv.url).ok
                    /\ Len(kv) = Len(argv.body)
                    /\ \A i \in 1..Len(kv) : kv[i].ok

C1_Witness ==
    /\ pc = "exit" /\ exit = "2" /\ sends = 0
    /\ argv.cmd = "post"
    /\ Url_parse(argv.url).ok
    /\ Len(argv.body) = 2 /\ ~NoEq(argv.body[1]) /\ NoEq(argv.body[2])

\* C2: parse_kv_pair on a string without "=" (the empty string too) is an
\* error and gives no KVPair.
C2_NoEqFails ==
    \A i \in 1..Len(kv) :
        NoEq(argv.body[i]) => (~kv[i].ok /\ kv[i] = KVErr /\ ~cli.ok /\ cli.body = <<>>)

C2_Witness ==
    \E i \in 1..Len(kv) : argv.body[i] = <<>> /\ ~kv[i].ok

\* C3: for k and v without "=" (either may be empty), parse_kv_pair on
\* k + "=" + v succeeds with exactly KVPair{k, v}.
C3_KeyEqValue ==
    \A i \in 1..Len(kv) : \A k \in NoEqStrings : \A v \in NoEqStrings :
        argv.body[i] = k \o <<"=">> \o v => kv[i] = [ok |-> TRUE, k |-> k, v |-> v]

C3_Witness ==
    /\ \E i \in 1..Len(kv) :
        argv.body[i] = <<"b", "=">> /\ kv[i] = [ok |-> TRUE, k |-> <<"b">>, v |-> <<>>]
    /\ cli.ok /\ cli.body[Len(cli.body)] = [k |-> <<"b">>, v |-> <<>>]

\* C4: for a token with at least one "=", the key is everything before the
\* first "=" and the value everything after the first "=", later "=" kept.
C4_ValueKeepsLaterEq ==
    \A i \in 1..Len(kv) :
        LET s == argv.body[i]
            e == IndexOf(s, "=")
        IN  e # 0 => /\ kv[i].ok
                     /\ kv[i].k = SubSeq(s, 1, e - 1)
                     /\ kv[i].v = SubSeq(s, e + 1, Len(s))

\* C5: parse_url fails on a token that is no absolute URL, and otherwise
\* returns the token itself; the request's URL is that same string.
C5_UrlUnchanged ==
    /\ pc # "start" => /\ (":" \notin {argv.url[i] : i \in 1..Len(argv.url)}) => ~cli.ok
                       /\ cli.ok => cli.url = argv.url
    /\ sends > 0 => req.url = argv.url

C5_Witness ==
    /\ sends = 1
    /\ argv.url = <<"A", ":", "a">>
    /\ req.url = <<"A", ":", "a">>

\* Index of the last pair of ps whose key is key.
LastWith(ps, key) ==
    CHOOSE i \in 1..Len(ps) : ps[i].k = key /\ \A j \in (i + 1)..Len(ps) : ps[j].k # key

\* C6: the JSON body of a post has exactly the keys of the pairs, and each
\* key maps to the value of the last pair with that key.
C6_LastPairWins ==
    req.method = "POST" =>
        /\ DOMAIN req.json = {cli.body[i].k : i \in 1..Len(cli.body)}
        /\ \A key \in DOMAIN req.json : req.json[key] = cli.body[LastWith(cli.body, key)].v

C6_Witness ==
    /\ req.method = "POST"
    /\ argv.body = <<<<"a", "=", "a">>, <<"a", "=", "b">>>>
    /\ DOMAIN req.json = {<<"a">>}
    /\ req.json[<<"a">>] = <<"b">>

\* C7: at most one request is sent in a run, exactly one once argument
\* parsing and client construction have succeeded and the run has gone on;
\* after a transport error there is no second send, nothing is printed and
\* the exit status is non-zero.
C7_OneRequest ==
    /\ sends <= 1
    /\ (cli.ok /\ client = "ok" /\ pc # "dispatch") => sends = 1
    /\ (~cli.ok \/ client # "ok") => sends = 0
    /\ err = "transport" => (sends = 1 /\ out = <<>> /\ pc = "exit" /\ exit \in NonZero)
    /\ (net.fail /\ sends > 0) => err = "transport"

C7_Witness ==
    err = "transport" /\ sends = 1 /\ out = <<>> /\ exit = "1"

BodyLines == SelectSeq(out, LAMBDA l : l.kind = "body")
ContentTypeHeader == header_get(resp.headers, CONTENT_TYPE)

\* The response has a Content-Type header whose essence is application/json.
EssenceIsJson ==
    /\ ContentTypeHeader.some
    /\ Mime_parse(ContentTypeHeader.value).ok
    /\ Mime_parse(ContentTypeHeader.value).m.type = "application"
    /\ Mime_parse(ContentTypeHeader.value).m.subtype = "json"

\* C8: the body is pretty-printed exactly when the Content-Type header's
\* essence, parameters ignored, is application/json; otherwise it is
\* emitted unmodified.
C8_PrettyIffEssenceJson ==
    BodyLines # <<>> =>
        IF EssenceIsJson
        THEN BodyLines = <<Line("body", "", pretty_print(resp.body), "cyan")>>
        ELSE BodyLines = <<Line("body", "", resp.body, "plain")>>

\* The Content-Type header is there and is no MIME type.
ContentTypeUnparsable ==
    /\ ContentTypeHeader.some
    /\ ~to_str_ok(ContentTypeHeader.value) \/ ~Mime_parse(ContentTypeHeader.value).ok

\* C9: when the Content-Type header does not parse as a MIME type, or the
\* pretty-printing of a JSON body fails, the run fails with a non-zero exit
\* status and the body is never emitted.
C9_RenderFailureIsFatal ==
    /\ ContentTypeUnparsable =>
        /\ BodyLines = <<>>
        /\ pc \notin {"text", "print_body", "return"}
        /\ pc = "exit" => exit \in NonZero
    /\ pp = "err" => (BodyLines = <<>> /\ pc = "exit" /\ exit \in NonZero)

C9_Witness ==
    /\ ContentTypeUnparsable
    /\ pc = "exit" /\ exit = "101" /\ err = "panic_content_type"
    /\ BodyLines = <<>>

HeaderLines == SelectSeq(out, LAMBDA l : l.kind = "header")
AsLines(hs) == [i \in 1..Len(hs) |-> Line("header", hs[i].name, hs[i].value, "green")]
FirstAt(hs, n) == CHOOSE i \in 1..Len(hs) : hs[i].name = n /\ \A j \in 1..(i - 1) : hs[j].name # n

\* ls holds the received headers hs, none dropped or merged: names in the
\* order of their first receipt, the values of one name together and in
\* the order received.
Grouped(ls, hs) ==
    /\ Len(ls) = Len(hs)
    /\ \A n \in {hs[i].name : i \in 1..Len(hs)} :
        SelectSeq(ls, LAMBDA l : l.name = n) = SelectSeq(AsLines(hs), LAMBDA l : l.name = n)
    /\ \A i \in 1..Len(ls) : \A j \in i..Len(ls) :
        FirstAt(hs, ls[i].name) <= FirstAt(hs, ls[j].name)

\* The status line and the header section are on standard output; each
\* line is printed with what hs says the header section holds.
Printed(hs, n) ==
    /\ Len(out) >= n + 3
    /\ out[1] = Line("status", "", resp.status, "blue")
    /\ out[2] = Blank
    /\ hs
    /\ \A i \in 3..(n + 2) : out[i].kind = "header"
    /\ out[n + 3] = Blank

\* The steps of print_resp come in order: status line, header section,
\* Content-Type parse, body read, body.
StepsInOrder(hs) ==
    LET n == Len(net.headers)
    IN  /\ pc = "print_header" => out = <<Line("status", "", resp.status, "blue"), Blank>>
        /\ pc \in {"get_content_type", "text", "print_body", "return"} => Printed(hs, n)
        /\ (mime.some \/ text # "" \/ pp # "none") => Printed(hs, n)
        /\ pc = "text" => (text = "" /\ ContentTypeHeader.some = mime.some)
        /\ pc \in {"print_body", "return"} => text = resp.body
        /\ BodyLines # <<>> => (Len(out) = n + 4 /\ out[n + 4].kind = "body" /\ text = resp.body)
        /\ err \in {"panic_content_type", "body_read", "panic_pretty_print"} =>
                (Printed(hs, n) /\ Len(out) = n + 3)

====
